---- MODULE Spec2Model ----
(***************************************************************************)
(* The rule store of src/services/tiktokRulesService.ts: the rules and     *)
(* the metadata record kept in localStorage, the module-level array        *)
(* DEFAULT_RULES, and the store operations loadRules, saveRules,           *)
(* getMetadata, addRule, updateRule, deleteRule, searchRules, exportRules, *)
(* importRules and resetToDefaultRules; the matcher checkTextViolation    *)
(* with calculateRisk, the prompt compiler buildRulesPrompt, and the       *)
(* reconciler recheckScriptViolation of src/services/geminiService.ts;    *)
(* generateRulesFromSearch, suspended while the AI answers; and the state  *)
(* of the ResultDisplay component with its suspended calls.                *)
(*                                                                         *)
(* A string is a sequence of one-character strings, so that toLowerCase    *)
(* and includes are computed.  A rule is a record with the eleven fields   *)
(* of TikTokRule.  An id is the pair <<prefix, number>>: 'rule-001' is     *)
(* <<"rule-00", 1>> and `rule-${Date.now()}` is <<"rule-", Date.now()>>.   *)
(***************************************************************************)
EXTENDS Integers, Sequences, FiniteSets, TLC

VARIABLES
    storedRules,    \* localStorage item STORAGE_KEY
    storedMeta,     \* localStorage item METADATA_KEY
    DEFAULT_RULES,  \* the module-level array; loadRules hands it out by reference
    now,            \* the last value Date.now() returned
    storage,        \* which localStorage calls throw at present
    ops,            \* number of steps taken so far
    assignedIds,    \* history: the ids addRule has assigned in this process
    deletedIds,     \* history: the assigned ids deleteRule has removed since the
                    \* last addRule or importRules
    exported,       \* the last text exportRules returned
    last,           \* the last store call: its name, arguments and result
    generation,     \* the call of generateRulesFromSearch in flight, if any
    view            \* the state of the ResultDisplay component

vars == <<storedRules, storedMeta, DEFAULT_RULES, now, storage, ops, assignedIds,
          deletedIds, exported, last, generation, view>>

----------------------------------------------------------------------------
(* Bounds *)

MaxNow == 2
MaxOps == 3

----------------------------------------------------------------------------
(* Strings *)

Lower(c) ==
    CASE c = "O" -> "o"
      [] c = "F" -> "f"
      [] c = "V" -> "v"
      [] c = "P" -> "p"
      [] c = "B" -> "b"
      [] c = "N" -> "n"
      [] OTHER -> c

toLowerCase(s) == [i \in 1..Len(s) |-> Lower(s[i])]

includes(s, q) ==
    \E i \in 0..(Len(s) - Len(q)) : SubSeq(s, i + 1, i + Len(q)) = q

----------------------------------------------------------------------------
(* The built-in rules.  Titles, descriptions, words and examples are       *)
(* abbreviated to two or three characters; createdAt and updatedAt are the *)
(* time the module was loaded, 0.                                          *)

DefaultRule(n, cat, title, desc, words, pairs, ex, sev) ==
    [id |-> <<"rule-00", n>>, category |-> cat, title |-> title,
     description |-> desc, forbiddenWords |-> words, forbiddenPairings |-> pairs,
     examples |-> ex, severity |-> sev, isActive |-> TRUE,
     createdAt |-> 0, updatedAt |-> 0]

BuiltInRules ==
    << DefaultRule(1, "overclaims", <<"O", "v">>, <<"d", "1">>,
                   << <<"r", "k", "d">>, <<"h", "k">> >>, << >>,
                   << <<"k", "r", "k">> >>, "critical"),
       DefaultRule(2, "medical_supplement", <<"F", "m">>, <<"d", "2">>,
                   << <<"r", "k">>, <<"b", "t">> >>, << >>,
                   << <<"a", "r", "k">> >>, "critical"),
       DefaultRule(3, "forbidden_pairings", <<"F", "w">>, <<"d", "3">>,
                   << >>,
                   << [word1 |-> <<"l">>, word2 |-> <<"k", "m">>],
                      [word1 |-> <<"k", "w">>, word2 |-> <<"p">>] >>,
                   << <<"l", "k", "m">> >>, "high"),
       DefaultRule(4, "violence_safety", <<"V", "i">>, <<"d", "4">>,
                   << <<"k", "a">>, <<"y">> >>, << >>,
                   << <<"p", "n">> >>, "critical"),
       DefaultRule(5, "platform_mentions", <<"P", "l">>, <<"d", "5">>,
                   << <<"F", "b">>, <<"L", "i">> >>, << >>,
                   << <<"t", "F", "b">> >>, "medium"),
       DefaultRule(6, "before_after", <<"B", "e">>, <<"d", "6">>,
                   << <<"B", "a">> >>, << >>,
                   << <<"p", "k">> >>, "medium") >>

----------------------------------------------------------------------------
(* localStorage items and JSON texts *)

\* getItem(STORAGE_KEY): null as long as nothing was persisted, and then the
\* JSON of an array of rules, the only text the store operations write.
NoItem == [kind |-> "null", rules |-> << >>]

JSONstringifyRules(rules) == [kind |-> "array", rules |-> rules]

NoMeta ==
    [present |-> FALSE, lastUpdated |-> 0, totalRules |-> 0, activeRules |-> 0,
     source |-> "", version |-> ""]

CountActive(rules) == Cardinality({i \in 1..Len(rules) : rules[i].isActive})

\* A text handed to importRules: one JSON.parse rejects, the JSON of null,
\* of an object without rules, of an object whose rules is no array, or of
\* an object whose rules is an array.
Blob(kind, rules, metadata) == [kind |-> kind, rules |-> rules, metadata |-> metadata]

NoBlob == Blob("unparseable", << >>, NoMeta)

\* {...a, ...b}: the fields of b laid over those of a.
Spread(a, b) ==
    [f \in (DOMAIN a) \cup (DOMAIN b) |-> IF f \in DOMAIN b THEN b[f] ELSE a[f]]

\* The condition of the host storage: every call works, getItem throws,
\* setItem throws (the quota is exceeded), setItem throws for the metadata
\* item alone, or every call throws (storage is disabled).
StorageConditions == {"ok", "getItemThrows", "setItemThrows", "metaThrows", "allThrow"}

getThrows == storage \in {"getItemThrows", "allThrow"}
setThrows == storage \in {"setItemThrows", "allThrow"}
setMetaThrows == storage = "metaThrows"

\* A reading of Date.now() after the reading t: the clock has stayed or has
\* advanced by one.
Reading(t) == {u \in {t, t + 1} : u <= MaxNow}

----------------------------------------------------------------------------
(* updateMetadata, saveRules, loadRules, getMetadata *)

\* updateMetadata with activeRules taken to be the number of rules.
updateMetadata_CountsAllActive(sm, rules, wm, t) ==
    IF wm
      THEN [sm |-> sm, raised |-> "StorageError"]
      ELSE [sm |-> [present |-> TRUE, lastUpdated |-> t, totalRules |-> Len(rules),
                    activeRules |-> Len(rules),
                    source |-> "Local Database", version |-> "1.0.0"],
            raised |-> "none"]

\* updateMetadata(rules) at time t; wm: setItem(METADATA_KEY) throws.
updateMetadata(sm, rules, wm, t) ==
    IF wm
      THEN [sm |-> sm, raised |-> "StorageError"]
      ELSE [sm |-> [present |-> TRUE, lastUpdated |-> t, totalRules |-> Len(rules),
                    activeRules |-> CountActive(rules),
                    source |-> "Local Database", version |-> "1.0.0"],
            raised |-> "none"]

\* The try block of saveRules: setItem(STORAGE_KEY), then updateMetadata.
\* wf: setItem(STORAGE_KEY) throws.
trySaveRules(sr, sm, rules, wf, wm, t) ==
    IF wf
      THEN [sr |-> sr, sm |-> sm, raised |-> "StorageError"]
      ELSE LET m == updateMetadata(sm, rules, wm, t)
           IN  [sr |-> JSONstringifyRules(rules), sm |-> m.sm, raised |-> m.raised]

\* saveRules without its catch.
saveRules_NoCatch(sr, sm, rules, wf, wm, t) == trySaveRules(sr, sm, rules, wf, wm, t)

\* saveRules(rules).  The catch logs whatever the try block throws and
\* returns.
saveRules(sr, sm, rules, wf, wm, t) ==
    [trySaveRules(sr, sm, rules, wf, wm, t) EXCEPT !.raised = "none"]

\* loadRules with an empty stored array taken for a missing item.
loadRules_EmptyIsMissing(sr, sm, D, rf, wf, wm, t) ==
    IF rf
      THEN [val |-> D, alias |-> TRUE, sr |-> sr, sm |-> sm, raised |-> "none"]
    ELSE IF sr.kind = "array" /\ sr.rules # << >>
      THEN [val |-> sr.rules, alias |-> FALSE, sr |-> sr, sm |-> sm,
            raised |-> "none"]
    ELSE LET s == saveRules(sr, sm, D, wf, wm, t)
         IN  [val |-> D, alias |-> TRUE, sr |-> s.sr, sm |-> s.sm,
              raised |-> "none"]

\* loadRules(); rf: getItem throws.  alias: the array returned is
\* DEFAULT_RULES itself, not a copy.  The catch of loadRules returns
\* DEFAULT_RULES for whatever the try block throws, saveRules included.
loadRules(sr, sm, D, rf, wf, wm, t) ==
    IF rf
      THEN [val |-> D, alias |-> TRUE, sr |-> sr, sm |-> sm, raised |-> "none"]
    ELSE IF sr.kind = "array"
      THEN [val |-> sr.rules, alias |-> FALSE, sr |-> sr, sm |-> sm,
            raised |-> "none"]
    ELSE LET s == saveRules(sr, sm, D, wf, wm, t)
         IN  [val |-> D, alias |-> TRUE, sr |-> s.sr, sm |-> s.sm,
              raised |-> "none"]

\* getMetadata(); rf: getItem throws.
getMetadata(sm, D, rf, t) ==
    IF rf
      THEN [lastUpdated |-> t, totalRules |-> 0, activeRules |-> 0,
            source |-> "Unknown", version |-> "1.0.0"]
    ELSE IF sm.present
      THEN [lastUpdated |-> sm.lastUpdated, totalRules |-> sm.totalRules,
            activeRules |-> sm.activeRules, source |-> sm.source,
            version |-> sm.version]
    ELSE [lastUpdated |-> t, totalRules |-> Len(D), activeRules |-> CountActive(D),
          source |-> "Default", version |-> "1.0.0"]

----------------------------------------------------------------------------
(* The record of the last call *)

NoResult ==
    [op |-> "init", raised |-> "none", ok |-> FALSE, out |-> << >>,
     id |-> <<"", 0>>, query |-> << >>, readFailed |-> FALSE,
     blobKind |-> "", emptyBefore |-> FALSE,
     invoked |-> FALSE, response |-> [kind |-> "none", payload |-> << >>],
     updates |-> << >>,
     meta |-> [lastUpdated |-> 0, totalRules |-> 0, activeRules |-> 0,
               source |-> "", version |-> ""]]

Result(op, raised, ok, out) ==
    [NoResult EXCEPT !.op = op, !.raised = raised, !.ok = ok, !.out = out]

\* No call of generateRulesFromSearch is in flight.  atCall is history: what
\* loadRules() returned when the last such call was made.
NoGeneration == [active |-> FALSE, atCall |-> << >>]

\* ResultDisplay as it is mounted: result is null (n counts the values the
\* prop has taken), no script, no recheck result, nothing in flight.
NoView ==
    [result |-> [n |-> 0, mode |-> "none", riskScore |-> 0, transcript_summary |-> << >>],
     fixedScript |-> [set |-> FALSE, text |-> << >>],
     usedOriginal |-> FALSE,
     rewriting |-> FALSE,
     recheckingScript |-> FALSE,
     recheckResult |-> [set |-> FALSE, script |-> << >>, forResult |-> 0,
                        result |-> << >>],
     pendingRewrite |-> FALSE,
     pendingRecheck |-> [active |-> FALSE, script |-> << >>, forResult |-> 0,
                         localCheck |-> << >>],
     loading |-> FALSE]

----------------------------------------------------------------------------
(* Initial state: a browser profile in which nothing was ever persisted. *)

Init ==
    /\ storedRules = NoItem
    /\ storedMeta = NoMeta
    /\ DEFAULT_RULES = BuiltInRules
    /\ now = 0
    /\ storage = "ok"
    /\ ops = 0
    /\ assignedIds = {}
    /\ deletedIds = {}
    /\ exported = [taken |-> FALSE, blob |-> NoBlob]
    /\ last = NoResult
    /\ generation = NoGeneration
    /\ view = NoView

----------------------------------------------------------------------------
(* Inputs *)

\* The argument of addRule: a rule without id, createdAt and updatedAt, as
\* the form of handleAddRule builds it.
NewRules ==
    { [category |-> "other", title |-> <<"N", "w">>, description |-> <<"d", "n">>,
       forbiddenWords |-> << <<"x">> >>, forbiddenPairings |-> << >>,
       examples |-> << >>, severity |-> "medium", isActive |-> TRUE] }

\* The ids a caller passes to updateRule and deleteRule: a built-in one, the
\* ones addRule has assigned, and one no rule ever has.
AbsentId == <<"rule-00", 9>>

CallIds == {<<"rule-00", 1>>, AbsentId} \cup assignedIds

\* The second argument of updateRule, a Partial<TikTokRule>: the toggle of
\* handleToggleActive, and an object that carries id, createdAt and
\* updatedAt beside an edited title, as the whole rule handleUpdateRule
\* passes does.
Updates ==
    { [isActive |-> FALSE],
      [id |-> <<"rule-00", 7>>, title |-> <<"E", "d">>, createdAt |-> 1,
       updatedAt |-> 0] }

Queries == { <<"n">>, <<"O", "V">> }

ImportRule ==
    [id |-> <<"rule-00", 1>>, category |-> "other", title |-> <<"I", "m">>,
     description |-> <<"d", "i">>, forbiddenWords |-> << <<"n">> >>,
     forbiddenPairings |-> << >>, examples |-> << >>, severity |-> "high",
     isActive |-> FALSE, createdAt |-> 1, updatedAt |-> 1]

ImportBlobs ==
    { NoBlob, Blob("null", << >>, NoMeta), Blob("noRules", << >>, NoMeta),
      Blob("rulesNotArray", << >>, NoMeta), Blob("rulesArray", << >>, NoMeta),
      Blob("rulesArray", <<ImportRule, BuiltInRules[2]>>, NoMeta) }

----------------------------------------------------------------------------
(* Store operations.  Each takes the two items and DEFAULT_RULES as it      *)
(* finds them and returns them as it leaves them, with its result.          *)

\* findIndex(r => r.id === id); 0 stands for -1.
findIndex(rules, id) ==
    IF \E i \in 1..Len(rules) : rules[i].id = id
      THEN CHOOSE i \in 1..Len(rules) :
             /\ rules[i].id = id
             /\ \A j \in 1..(i - 1) : rules[j].id # id
      ELSE 0

\* addRule(rule).  tid, tc, tu: the three readings of Date.now().
addRule(sr, sm, D, rule, tid, tc, tu) ==
    LET r == loadRules(sr, sm, D, getThrows, setThrows, setMetaThrows, tid)
        newRule == Spread(rule, [id |-> <<"rule-", tid>>, createdAt |-> tc,
                                 updatedAt |-> tu])
        rules == Append(r.val, newRule)
        s == saveRules(r.sr, r.sm, rules, setThrows, setMetaThrows, tu)
    IN  [sr |-> s.sr, sm |-> s.sm, D |-> IF r.alias THEN rules ELSE D,
         raised |-> s.raised, out |-> <<newRule>>]

\* updateRule that saves what it loaded when no rule has the id.
updateRule_SavesWhenMissing(sr, sm, D, id, updates, t) ==
    LET r == loadRules(sr, sm, D, getThrows, setThrows, setMetaThrows, t)
        index == findIndex(r.val, id)
        rule == Spread(Spread(r.val[index], updates), [updatedAt |-> t])
        rules == [r.val EXCEPT ![index] = rule]
        s == saveRules(r.sr, r.sm, rules, setThrows, setMetaThrows, t)
        s0 == saveRules(r.sr, r.sm, r.val, setThrows, setMetaThrows, t)
    IN  IF index = 0
          THEN [sr |-> s0.sr, sm |-> s0.sm, D |-> D, raised |-> s0.raised,
                found |-> FALSE, out |-> << >>]
          ELSE [sr |-> s.sr, sm |-> s.sm, D |-> IF r.alias THEN rules ELSE D,
                raised |-> s.raised, found |-> TRUE, out |-> <<rule>>]

\* updateRule with `updatedAt: Date.now()` put before `...updates`.
updateRule_KeepsCallerStamp(sr, sm, D, id, updates, t) ==
    LET r == loadRules(sr, sm, D, getThrows, setThrows, setMetaThrows, t)
        index == findIndex(r.val, id)
        rule == Spread(Spread(r.val[index], [updatedAt |-> t]), updates)
        rules == [r.val EXCEPT ![index] = rule]
        s == saveRules(r.sr, r.sm, rules, setThrows, setMetaThrows, t)
    IN  IF index = 0
          THEN [sr |-> r.sr, sm |-> r.sm, D |-> D, raised |-> r.raised,
                found |-> FALSE, out |-> << >>]
          ELSE [sr |-> s.sr, sm |-> s.sm, D |-> IF r.alias THEN rules ELSE D,
                raised |-> s.raised, found |-> TRUE, out |-> <<rule>>]

\* updateRule(id, updates).  t: the reading of Date.now().
updateRule(sr, sm, D, id, updates, t) ==
    LET r == loadRules(sr, sm, D, getThrows, setThrows, setMetaThrows, t)
        index == findIndex(r.val, id)
        rule == Spread(Spread(r.val[index], updates), [updatedAt |-> t])
        rules == [r.val EXCEPT ![index] = rule]
        s == saveRules(r.sr, r.sm, rules, setThrows, setMetaThrows, t)
    IN  IF index = 0
          THEN [sr |-> r.sr, sm |-> r.sm, D |-> D, raised |-> r.raised,
                found |-> FALSE, out |-> << >>]
          ELSE [sr |-> s.sr, sm |-> s.sm, D |-> IF r.alias THEN rules ELSE D,
                raised |-> s.raised, found |-> TRUE, out |-> <<rule>>]

\* deleteRule(id)
deleteRule(sr, sm, D, id, t) ==
    LET r == loadRules(sr, sm, D, getThrows, setThrows, setMetaThrows, t)
        filtered == SelectSeq(r.val, LAMBDA x : x.id # id)
        s == saveRules(r.sr, r.sm, filtered, setThrows, setMetaThrows, t)
    IN  IF Len(filtered) = Len(r.val)
          THEN [sr |-> r.sr, sm |-> r.sm, raised |-> r.raised, removed |-> FALSE]
          ELSE [sr |-> s.sr, sm |-> s.sm, raised |-> s.raised, removed |-> TRUE]

\* The filter of searchRules.
matches(rule, lowerQuery) ==
    \/ includes(toLowerCase(rule.title), lowerQuery)
    \/ includes(toLowerCase(rule.description), lowerQuery)
    \/ \E i \in 1..Len(rule.forbiddenWords) :
         includes(toLowerCase(rule.forbiddenWords[i]), lowerQuery)
    \/ \E i \in 1..Len(rule.examples) :
         includes(toLowerCase(rule.examples[i]), lowerQuery)

\* searchRules(query)
searchRules(sr, sm, D, query, t) ==
    LET r == loadRules(sr, sm, D, getThrows, setThrows, setMetaThrows, t)
        lowerQuery == toLowerCase(query)
    IN  [sr |-> r.sr, sm |-> r.sm, raised |-> r.raised,
         out |-> SelectSeq(r.val, LAMBDA x : matches(x, lowerQuery))]

\* exportRules that writes the active rules only.
exportRules_ActiveOnly(sr, sm, D, t) ==
    LET r == loadRules(sr, sm, D, getThrows, setThrows, setMetaThrows, t)
        metadata == getMetadata(r.sm, D, getThrows, t)
    IN  [sr |-> r.sr, sm |-> r.sm, loaded |-> r.val,
         raised |-> r.raised,
         blob |-> Blob("rulesArray", SelectSeq(r.val, LAMBDA x : x.isActive),
                       Spread(NoMeta, Spread(metadata, [present |-> TRUE])))]

\* exportRules(): JSON.stringify({ rules, metadata }, null, 2)
exportRules(sr, sm, D, t) ==
    LET r == loadRules(sr, sm, D, getThrows, setThrows, setMetaThrows, t)
        metadata == getMetadata(r.sm, D, getThrows, t)
    IN  [sr |-> r.sr, sm |-> r.sm, loaded |-> r.val,
         raised |-> r.raised,
         blob |-> Blob("rulesArray", r.val,
                       Spread(NoMeta, Spread(metadata, [present |-> TRUE])))]

\* importRules(jsonString).  JSON.parse throws on a text that is no JSON and
\* data.rules throws on null; the catch returns false.
importRules(sr, sm, jsonString, t) ==
    LET s == saveRules(sr, sm, jsonString.rules, setThrows, setMetaThrows, t)
    IN  IF jsonString.kind \in {"unparseable", "null"}
          THEN [sr |-> sr, sm |-> sm, ok |-> FALSE, raised |-> "none"]
        ELSE IF jsonString.kind = "rulesArray"
          THEN [sr |-> s.sr, sm |-> s.sm, ok |-> TRUE, raised |-> s.raised]
        ELSE [sr |-> sr, sm |-> sm, ok |-> FALSE, raised |-> "none"]

\* resetToDefaultRules()
resetToDefaultRules(sr, sm, D, t) == saveRules(sr, sm, D, setThrows, setMetaThrows, t)

----------------------------------------------------------------------------
(* Actions: one call of a store operation each.  Date.now() may have       *)
(* advanced when addRule and updateRule read it; updateMetadata's reading   *)
(* is taken equal to the reading before it.                                 *)

Load ==
    /\ ops < MaxOps
    /\ LET r == loadRules(storedRules, storedMeta, DEFAULT_RULES, getThrows, setThrows, setMetaThrows, now)
       IN  /\ storedRules' = r.sr
           /\ storedMeta' = r.sm
           /\ last' = [Result("load", r.raised, TRUE, r.val)
                         EXCEPT !.readFailed = getThrows]
    /\ ops' = ops + 1
    /\ UNCHANGED <<generation, view>>
    /\ UNCHANGED <<DEFAULT_RULES, now, storage, assignedIds, deletedIds, exported>>

GetMetadata ==
    /\ ops < MaxOps
    /\ last' = [Result("getMetadata", "none", TRUE, << >>)
                  EXCEPT !.meta = getMetadata(storedMeta, DEFAULT_RULES, getThrows, now),
                         !.readFailed = getThrows]
    /\ ops' = ops + 1
    /\ UNCHANGED <<generation, view>>
    /\ UNCHANGED <<storedRules, storedMeta, DEFAULT_RULES, now, storage,
                   assignedIds, deletedIds, exported>>

AddRule ==
    /\ ops < MaxOps
    /\ \E rule \in NewRules, tid \in Reading(now) :
       \E tc \in Reading(tid) :
       \E tu \in Reading(tc) :
         LET a == addRule(storedRules, storedMeta, DEFAULT_RULES, rule, tid, tc, tu)
         IN  /\ tu <= now + 1
             /\ storedRules' = a.sr
             /\ storedMeta' = a.sm
             /\ DEFAULT_RULES' = a.D
             /\ now' = tu
             /\ assignedIds' = IF a.raised = "none"
                                 THEN assignedIds \cup {<<"rule-", tid>>}
                                 ELSE assignedIds
             /\ last' = [Result("add", a.raised, a.raised = "none", a.out)
                           EXCEPT !.id = <<"rule-", tid>>, !.readFailed = getThrows]
    /\ deletedIds' = {}
    /\ ops' = ops + 1
    /\ UNCHANGED <<generation, view>>
    /\ UNCHANGED <<storage, exported>>

UpdateRule ==
    /\ ops < MaxOps
    /\ \E id \in CallIds, updates \in Updates, t \in Reading(now) :
         LET u == updateRule(storedRules, storedMeta, DEFAULT_RULES, id, updates, t)
         IN  /\ storedRules' = u.sr
             /\ storedMeta' = u.sm
             /\ DEFAULT_RULES' = u.D
             /\ now' = t
             /\ last' = [Result("update", u.raised, u.found, u.out)
                           EXCEPT !.id = id, !.readFailed = getThrows,
                                  !.updates = updates]
    /\ ops' = ops + 1
    /\ UNCHANGED <<generation, view>>
    /\ UNCHANGED <<storage, assignedIds, deletedIds, exported>>

DeleteRule ==
    /\ ops < MaxOps
    /\ \E id \in CallIds :
         LET d == deleteRule(storedRules, storedMeta, DEFAULT_RULES, id, now)
         IN  /\ storedRules' = d.sr
             /\ storedMeta' = d.sm
             /\ last' = [Result("delete", d.raised, d.removed, << >>)
                           EXCEPT !.id = id, !.readFailed = getThrows]
             /\ deletedIds' = IF d.removed /\ id \in assignedIds
                                THEN deletedIds \cup {id} ELSE deletedIds
    /\ ops' = ops + 1
    /\ UNCHANGED <<generation, view>>
    /\ UNCHANGED <<DEFAULT_RULES, now, storage, assignedIds, exported>>

SearchRules ==
    /\ ops < MaxOps
    /\ \E query \in Queries :
         LET f == searchRules(storedRules, storedMeta, DEFAULT_RULES, query, now)
         IN  /\ storedRules' = f.sr
             /\ storedMeta' = f.sm
             /\ last' = [Result("search", f.raised, f.raised = "none", f.out)
                           EXCEPT !.query = query, !.readFailed = getThrows]
    /\ ops' = ops + 1
    /\ UNCHANGED <<generation, view>>
    /\ UNCHANGED <<DEFAULT_RULES, now, storage, assignedIds, deletedIds, exported>>

ExportRules ==
    /\ ops < MaxOps
    /\ LET e == exportRules(storedRules, storedMeta, DEFAULT_RULES, now)
       IN  /\ storedRules' = e.sr
           /\ storedMeta' = e.sm
           /\ exported' = [taken |-> TRUE, blob |-> e.blob]
           /\ last' = [Result("export", e.raised, TRUE, << >>)
                         EXCEPT !.readFailed = getThrows]
    /\ ops' = ops + 1
    /\ UNCHANGED <<generation, view>>
    /\ UNCHANGED <<DEFAULT_RULES, now, storage, assignedIds, deletedIds>>

HoldsNoRules(sr) == sr.kind = "null" \/ sr.rules = << >>

\* importRules of a chosen text or of the text exportRules returned last.
ImportRules ==
    /\ ops < MaxOps
    /\ \E jsonString \in ImportBlobs \cup {exported.blob} :
         LET i == importRules(storedRules, storedMeta, jsonString, now)
         IN  /\ storedRules' = i.sr
             /\ storedMeta' = i.sm
             /\ last' = [Result("import", i.raised, i.ok, jsonString.rules)
                           EXCEPT !.blobKind = jsonString.kind,
                                  !.emptyBefore = HoldsNoRules(storedRules),
                                  !.id = IF exported.taken /\ jsonString = exported.blob
                                           THEN <<"exported", 0>> ELSE <<"", 0>>]
    /\ deletedIds' = {}
    /\ ops' = ops + 1
    /\ UNCHANGED <<generation, view>>
    /\ UNCHANGED <<DEFAULT_RULES, now, storage, assignedIds, exported>>

ResetToDefaultRules ==
    /\ ops < MaxOps
    /\ LET s == resetToDefaultRules(storedRules, storedMeta, DEFAULT_RULES, now)
       IN  /\ storedRules' = s.sr
           /\ storedMeta' = s.sm
           /\ last' = Result("reset", s.raised, TRUE, << >>)
    /\ ops' = ops + 1
    /\ UNCHANGED <<generation, view>>
    /\ UNCHANGED <<DEFAULT_RULES, now, storage, assignedIds, deletedIds, exported>>

\* The host storage starts or stops throwing.
StorageChanges ==
    /\ ops < MaxOps
    /\ \E c \in StorageConditions \ {storage} : storage' = c
    /\ ops' = ops + 1
    /\ UNCHANGED <<generation, view>>
    /\ UNCHANGED <<storedRules, storedMeta, DEFAULT_RULES, now, assignedIds, deletedIds,
                   exported, last>>

Next ==
    \/ Load
    \/ GetMetadata
    \/ AddRule
    \/ UpdateRule
    \/ DeleteRule
    \/ SearchRules
    \/ ExportRules
    \/ ImportRules
    \/ ResetToDefaultRules

Spec == Init /\ [][Next]_vars

\* The same program on a host whose storage may throw.
NextFail == Next \/ StorageChanges

SpecFail == Init /\ [][NextFail]_vars

----------------------------------------------------------------------------
(* The matcher: checkTextViolation and calculateRisk.  A number of the     *)
(* program is a record, so that NaN is a value of it.                       *)

Num(n) == [nan |-> FALSE, val |-> n]
NaN == [nan |-> TRUE, val |-> 0]

\* An explanation: the local text carries the number of findings.
Explanation(src, n) == [src |-> src, n |-> n]

\* Some of the property names every object literal inherits from
\* Object.prototype; severityScore[name] is a function or an object for them.
ObjectPrototypeKeys == {"constructor", "toString", "valueOf", "__proto__"}

\* severityScore[severity] || 20, for a severity Object.prototype has no
\* member of.
Weight(severity) ==
    CASE severity = "low" -> 10
      [] severity = "medium" -> 25
      [] severity = "high" -> 40
      [] severity = "critical" -> 60
      [] OTHER -> 20

RECURSIVE totalScore(_)
totalScore(violations) ==
    IF violations = << >>
      THEN 0
      ELSE Weight(Head(violations).severity) + totalScore(Tail(violations))

\* calculateRisk(violations).  For an inherited member totalScore += member
\* makes totalScore a string, and Math.min(100, string) is NaN.
calculateRisk(violations) ==
    IF Len(violations) = 0
      THEN Num(0)
    ELSE IF \E i \in 1..Len(violations) :
              violations[i].severity \in ObjectPrototypeKeys
      THEN NaN
    ELSE Num(IF totalScore(violations) < 100 THEN totalScore(violations) ELSE 100)

\* new RegExp(...) throws a SyntaxError on an unbalanced parenthesis; the
\* words are put into the pattern unescaped.
RegExpThrows(pairing) ==
    \/ \E i \in 1..Len(pairing.word1) : pairing.word1[i] = "("
    \/ \E i \in 1..Len(pairing.word2) : pairing.word2[i] = "("

\* The word w matches at position i of s, letter case ignored.
startsAt(s, w, i) ==
    /\ i + Len(w) - 1 <= Len(s)
    /\ toLowerCase(SubSeq(s, i, i + Len(w) - 1)) = toLowerCase(w)

\* The pattern w1.*w2 matches somewhere in text; "." matches every
\* character but a line terminator.
matchesInOrder(text, w1, w2) ==
    \E i \in 1..(Len(text) + 1), j \in 1..(Len(text) + 1) :
       /\ startsAt(text, w1, i)
       /\ j >= i + Len(w1)
       /\ startsAt(text, w2, j)
       /\ \A k \in (i + Len(w1))..(j - 1) : text[k] # "\n"

\* The test with the pattern `${word1}.*${word2}` alone.
regexTest_FirstOrderOnly(text, pairing) ==
    matchesInOrder(text, pairing.word1, pairing.word2)

\* new RegExp(`${word1}.*${word2}|${word2}.*${word1}`, 'i').test(text)
regexTest(text, pairing) ==
    \/ matchesInOrder(text, pairing.word1, pairing.word2)
    \/ matchesInOrder(text, pairing.word2, pairing.word1)

\* The finding pushed for a forbidden word and for a forbidden pairing.
WordFinding(rule, word) ==
    [ruleId |-> rule.id, ruleTitle |-> rule.title,
     violation |-> [kind |-> "word", words |-> <<word>>],
     severity |-> rule.severity,
     suggestion |-> [kind |-> "word", words |-> <<word>>]]

PairingFinding(rule, pairing) ==
    [ruleId |-> rule.id, ruleTitle |-> rule.title,
     violation |-> [kind |-> "pairing", words |-> <<pairing.word1, pairing.word2>>],
     severity |-> rule.severity,
     suggestion |-> [kind |-> "pairing", words |-> <<pairing.word1, pairing.word2>>]]

\* The findings one pass of the outer loop pushes for rule.
findingsOf(rule, text) ==
    LET words == SelectSeq(rule.forbiddenWords,
                           LAMBDA w : includes(toLowerCase(text), toLowerCase(w)))
        pairings == SelectSeq(rule.forbiddenPairings,
                              LAMBDA p : regexTest(text, p))
    IN  [i \in 1..Len(words) |-> WordFinding(rule, words[i])]
          \o [i \in 1..Len(pairings) |-> PairingFinding(rule, pairings[i])]

RECURSIVE scanRules(_, _)
scanRules(rules, text) ==
    IF rules = << >>
      THEN << >>
      ELSE findingsOf(Head(rules), text) \o scanRules(Tail(rules), text)

NoCheckResult ==
    [raised |-> "none", isViolating |-> FALSE, violatedRules |-> << >>,
     overallRisk |-> Num(0), explanation |-> Explanation("local", 0)]

\* checkRules over every rule loaded, active or not.
checkRules_NoActiveFilter(loaded, text) ==
    LET violations == scanRules(loaded, text)
    IN  IF \E i \in 1..Len(loaded) :
             \E k \in 1..Len(loaded[i].forbiddenPairings) :
               RegExpThrows(loaded[i].forbiddenPairings[k])
          THEN [NoCheckResult EXCEPT !.raised = "SyntaxError"]
          ELSE [raised |-> "none",
                isViolating |-> Len(violations) > 0,
                violatedRules |-> violations,
                overallRisk |-> calculateRisk(violations),
                explanation |-> Explanation("local", Len(violations))]

\* The loop and the result of checkTextViolation over the rules loaded.
\* The loop stops with the SyntaxError of the first pattern that does not
\* compile; no rule before it can have returned, so nothing is returned.
checkRules(loaded, text) ==
    LET rules == SelectSeq(loaded, LAMBDA r : r.isActive)
        violations == scanRules(rules, text)
    IN  IF \E i \in 1..Len(rules) :
             \E k \in 1..Len(rules[i].forbiddenPairings) :
               RegExpThrows(rules[i].forbiddenPairings[k])
          THEN [NoCheckResult EXCEPT !.raised = "SyntaxError"]
          ELSE [raised |-> "none",
                isViolating |-> Len(violations) > 0,
                violatedRules |-> violations,
                overallRisk |-> calculateRisk(violations),
                explanation |-> Explanation("local", Len(violations))]

\* checkTextViolation(text)
checkTextViolation(sr, sm, D, text, t) ==
    LET r == loadRules(sr, sm, D, getThrows, setThrows, setMetaThrows, t)
    IN  [sr |-> r.sr, sm |-> r.sm, result |-> checkRules(r.val, text)]

----------------------------------------------------------------------------
(* The prompt compiler: buildRulesPrompt.  The brief is its heading and    *)
(* the numbered entries; an entry holds what its lines are made of, the     *)
(* words line and the pairings line being left out when the sequence is    *)
(* empty.                                                                   *)

\* The keys of the categories object, in the order Object.entries yields.
CategoryOrder ==
    << "overclaims", "medical_supplement", "forbidden_pairings", "violence_safety",
       "platform_mentions", "before_after", "other" >>

RECURSIVE categoryEntries(_, _)
categoryEntries(rules, k) ==
    IF k > Len(CategoryOrder)
      THEN << >>
      ELSE SelectSeq(rules, LAMBDA r : r.category = CategoryOrder[k])
             \o categoryEntries(rules, k + 1)

\* The rules in the order the two nested loops visit them.
buildEntries(rules) == categoryEntries(rules, 1)

BriefEntry(rule, index) ==
    [index |-> index, title |-> rule.title, words |-> rule.forbiddenWords,
     pairings |-> rule.forbiddenPairings]

\* buildRulesPrompt().  categories[rule.category].push(rule) throws a
\* TypeError for a category that is no key of categories.
buildRulesPrompt(sr, sm, D, t) ==
    LET r == loadRules(sr, sm, D, getThrows, setThrows, setMetaThrows, t)
        rules == SelectSeq(r.val, LAMBDA x : x.isActive)
        visited == buildEntries(rules)
    IN  IF \E i \in 1..Len(rules) :
             \A k \in 1..Len(CategoryOrder) : rules[i].category # CategoryOrder[k]
          THEN [sr |-> r.sr, sm |-> r.sm, raised |-> "TypeError",
                heading |-> "", entries |-> << >>]
          ELSE [sr |-> r.sr, sm |-> r.sm, raised |-> "none",
                heading |-> "TIKTOK POLICY & FORBIDDEN WORDS (STRICT ENFORCEMENT):",
                entries |-> [i \in 1..Len(visited) |-> BriefEntry(visited[i], i)]]

\* getTikTokRules(): the compiled brief, or the static text of the catch.
getTikTokRules(sr, sm, D, t) ==
    LET b == buildRulesPrompt(sr, sm, D, t)
    IN  IF b.raised # "none"
          THEN [kind |-> "static", entries |-> << >>]
          ELSE [kind |-> "compiled", entries |-> b.entries]

----------------------------------------------------------------------------
(* The reconciler: recheckScriptViolation.  The answer of the external     *)
(* collaborator is an input: the call is rejected, response.text is empty, *)
(* the text is no JSON, or it is the JSON of an object, the payload, which *)
(* is the record of the fields the object has.                              *)

Has(payload, field) == field \in DOMAIN payload

\* Math.max(a, b); Math.max of a number and undefined is NaN.
MathMax(a, b) ==
    IF a.nan \/ b.nan THEN NaN ELSE Num(IF a.val >= b.val THEN a.val ELSE b.val)

\* The merge that reports the local verdict alone.
mergeResults_KeepsLocalVerdict(localCheck, aiResult) ==
    IF ~Has(aiResult, "violatedRules")
      THEN [NoCheckResult EXCEPT !.raised = "TypeError"]
      ELSE [raised |-> "none",
            isViolating |-> localCheck.isViolating,
            violatedRules |-> localCheck.violatedRules \o aiResult.violatedRules,
            overallRisk |-> MathMax(localCheck.overallRisk,
                                     IF Has(aiResult, "overallRisk")
                                       THEN aiResult.overallRisk ELSE NaN),
            explanation |-> IF Has(aiResult, "explanation")
                                 /\ aiResult.explanation.src # "empty"
                              THEN aiResult.explanation
                              ELSE localCheck.explanation]

\* The object literal that merges the local and the AI result.  Spreading
\* aiResult.violatedRules throws a TypeError when the payload has no such
\* field.  The payloads drawn all carry isViolating.
mergeResults(localCheck, aiResult) ==
    IF ~Has(aiResult, "violatedRules")
      THEN [NoCheckResult EXCEPT !.raised = "TypeError"]
      ELSE [raised |-> "none",
            isViolating |-> localCheck.isViolating \/ aiResult.isViolating,
            violatedRules |-> localCheck.violatedRules \o aiResult.violatedRules,
            overallRisk |-> MathMax(localCheck.overallRisk,
                                     IF Has(aiResult, "overallRisk")
                                       THEN aiResult.overallRisk ELSE NaN),
            explanation |-> IF Has(aiResult, "explanation")
                                 /\ aiResult.explanation.src # "empty"
                              THEN aiResult.explanation
                              ELSE localCheck.explanation]

\* The try block of recheckScriptViolation.
tryExternalCheck(localCheck, response) ==
    CASE response.kind = "rejected" ->
           [NoCheckResult EXCEPT !.raised = "ExternalError"]
      [] response.kind = "empty" -> localCheck
      [] response.kind = "unparseable" ->
           [NoCheckResult EXCEPT !.raised = "SyntaxError"]
      [] OTHER -> mergeResults(localCheck, response.payload)

\* recheckScriptViolation without its catch.
catchExternal_Rethrows(localCheck, attempt) == attempt

\* The catch of recheckScriptViolation: log and return localCheck.
catchExternal(localCheck, attempt) ==
    IF attempt.raised # "none" THEN localCheck ELSE attempt

\* The early return taken for no local result.
returnsLocal_Never(localCheck) == FALSE

\* if (localCheck.isViolating) return localCheck
returnsLocal(localCheck) == localCheck.isViolating

\* recheckScriptViolation(apiKey, scriptText).  An error of the local check
\* rejects the call.  getTikTokRules() catches what buildRulesPrompt throws.
recheckScriptViolation(sr, sm, D, scriptText, response, t) ==
    LET c == checkTextViolation(sr, sm, D, scriptText, t)
        localCheck == c.result
        g == buildRulesPrompt(c.sr, c.sm, D, t)
    IN  IF localCheck.raised # "none" \/ returnsLocal(localCheck)
          THEN [sr |-> c.sr, sm |-> c.sm, invoked |-> FALSE, result |-> localCheck]
          ELSE [sr |-> g.sr, sm |-> g.sm, invoked |-> TRUE,
                result |-> catchExternal(localCheck,
                                         tryExternalCheck(localCheck, response))]

----------------------------------------------------------------------------
(* The matcher on a store that importRules has filled.  importRules stores *)
(* whatever the rules array holds, so a stored rule may carry a severity   *)
(* or a category outside the enumerations and any string as a word.        *)

MaxTextLen == 3
MaxRules == 2

TextChars == {"n", "B", "\n"}

Texts == UNION {[1..k -> TextChars] : k \in 0..MaxTextLen}

MatchRule(n, cat, words, pairs, sev, active) ==
    [id |-> <<"rule-", n>>, category |-> cat, title |-> <<"T", "n">>,
     description |-> <<"d">>, forbiddenWords |-> words, forbiddenPairings |-> pairs,
     examples |-> << >>, severity |-> sev, isActive |-> active,
     createdAt |-> 0, updatedAt |-> 0]

MatchRuleTemplates ==
    { MatchRule(1, "overclaims", << <<"N">>, <<"n", "b">> >>, << >>, "critical", TRUE),
      MatchRule(2, "other", << <<"b">> >>,
                << [word1 |-> <<"n">>, word2 |-> <<"B">>] >>, "high", FALSE),
      MatchRule(3, "forbidden_pairings", << >>,
                << [word1 |-> <<"b">>, word2 |-> <<"N">>] >>, "medium", TRUE),
      MatchRule(4, "other", << <<"b">> >>, << >>, "constructor", TRUE),
      MatchRule(5, "before_after", << >>,
                << [word1 |-> <<"(">>, word2 |-> <<"n">>] >>, "low", TRUE),
      MatchRule(6, "promo", << <<"n">> >>, << >>, "severe", TRUE) }

RuleSets == UNION {[1..k -> MatchRuleTemplates] : k \in 0..MaxRules}

\* The two items as importRules leaves them after storing rules.
Imported(rules) ==
    /\ storedRules = JSONstringifyRules(rules)
    /\ storedMeta = updateMetadata(NoMeta, rules, FALSE, 0).sm

\* The rest of the state when the page has just been loaded.
PageLoaded ==
    /\ DEFAULT_RULES = BuiltInRules
    /\ now = 0
    /\ storage = "ok"
    /\ ops = 0
    /\ assignedIds = {}
    /\ deletedIds = {}
    /\ exported = [taken |-> FALSE, blob |-> NoBlob]
    /\ last = NoResult
    /\ generation = NoGeneration
    /\ view = NoView

\* Nothing was ever persisted, or importRules has stored one of the rule sets.
InitMatch ==
    /\ \/ storedRules = NoItem /\ storedMeta = NoMeta
       \/ \E rules \in RuleSets : Imported(rules)
    /\ PageLoaded

\* The words a stored pairing is made of.
PairingWords == { <<"n">>, <<"B">>, <<"b">>, <<"n", "b">>, <<"(">> }

\* An active rule with the one pairing (w1, w2).
PairRule(w1, w2) ==
    MatchRule(0, "forbidden_pairings", << >>, << [word1 |-> w1, word2 |-> w2] >>,
              "high", TRUE)

\* importRules has stored one rule with one pairing.
InitPairing ==
    /\ \E w1 \in PairingWords, w2 \in PairingWords : Imported(<<PairRule(w1, w2)>>)
    /\ PageLoaded

\* One call of checkTextViolation on the store drawn.
CheckText ==
    /\ ops = 0
    /\ \E text \in Texts :
         LET c == checkTextViolation(storedRules, storedMeta, DEFAULT_RULES, text, now)
         IN  /\ storedRules' = c.sr
             /\ storedMeta' = c.sm
             /\ last' = [Result("checkText", c.result.raised,
                                c.result.raised = "none", <<c.result>>)
                           EXCEPT !.query = text]
    /\ ops' = ops + 1
    /\ UNCHANGED <<generation, view>>
    /\ UNCHANGED <<DEFAULT_RULES, now, storage, assignedIds, deletedIds, exported>>

\* One call of buildRulesPrompt on the store drawn.
BuildBrief ==
    /\ ops = 0
    /\ LET b == buildRulesPrompt(storedRules, storedMeta, DEFAULT_RULES, now)
       IN  /\ storedRules' = b.sr
           /\ storedMeta' = b.sm
           /\ last' = Result("buildBrief", b.raised, b.raised = "none", b.entries)
    /\ ops' = ops + 1
    /\ UNCHANGED <<generation, view>>
    /\ UNCHANGED <<DEFAULT_RULES, now, storage, assignedIds, deletedIds, exported>>

NextMatch ==
    \/ CheckText
    \/ BuildBrief

SpecMatch == InitMatch /\ [][NextMatch]_vars

SpecPairing == InitPairing /\ [][NextMatch]_vars

----------------------------------------------------------------------------
(* The reconciler on a store of the built-in rules or of one rule. *)

AiFinding ==
    [ruleId |-> <<"ai-check", 0>>, ruleTitle |-> <<"A", "i">>,
     violation |-> [kind |-> "ai", words |-> << >>],
     severity |-> "high",
     suggestion |-> [kind |-> "ai", words |-> << >>]]

\* Complete payloads: a violation, a clean verdict, a violation with the
\* explanation "".
CompletePayloads ==
    { [isViolating |-> TRUE, violatedRules |-> <<AiFinding>>,
       overallRisk |-> Num(70), explanation |-> Explanation("ai", 1)],
      [isViolating |-> FALSE, violatedRules |-> << >>,
       overallRisk |-> Num(0), explanation |-> Explanation("ai", 0)],
      [isViolating |-> TRUE, violatedRules |-> <<AiFinding, AiFinding>>,
       overallRisk |-> Num(40), explanation |-> Explanation("empty", 0)] }

\* Payloads that report a violation and leave one optional field out.
PartialPayloads ==
    { [isViolating |-> TRUE, overallRisk |-> Num(70),
       explanation |-> Explanation("ai", 1)],
      [isViolating |-> TRUE, violatedRules |-> <<AiFinding>>,
       explanation |-> Explanation("ai", 1)],
      [isViolating |-> TRUE, violatedRules |-> <<AiFinding>>,
       overallRisk |-> Num(70)] }

\* A payload with every field, the fields not agreeing with each other:
\* JSON.parse accepts it and nothing validates it.
UnvalidatedPayloads ==
    { [isViolating |-> TRUE, violatedRules |-> << >>,
       overallRisk |-> Num(150), explanation |-> Explanation("ai", 0)] }

ExternalResponses ==
    { [kind |-> k, payload |-> << >>] : k \in {"rejected", "empty", "unparseable"} }
      \cup { [kind |-> "json", payload |-> p] :
                 p \in CompletePayloads \cup PartialPayloads \cup UnvalidatedPayloads }

InitRecheck ==
    /\ \/ storedRules = NoItem /\ storedMeta = NoMeta
       \/ \E rule \in MatchRuleTemplates : Imported(<<rule>>)
    /\ PageLoaded

\* One call of recheckScriptViolation with the answer the collaborator
\* gives, should it be asked.
Recheck ==
    /\ ops = 0
    /\ \E scriptText \in Texts, response \in ExternalResponses :
         LET r == recheckScriptViolation(storedRules, storedMeta, DEFAULT_RULES,
                                         scriptText, response, now)
         IN  /\ storedRules' = r.sr
             /\ storedMeta' = r.sm
             /\ last' = [Result("recheck", r.result.raised, r.result.raised = "none",
                                <<r.result>>)
                           EXCEPT !.query = scriptText, !.invoked = r.invoked,
                                  !.response = response]
    /\ ops' = ops + 1
    /\ UNCHANGED <<generation, view>>
    /\ UNCHANGED <<DEFAULT_RULES, now, storage, assignedIds, deletedIds, exported>>

NextRecheck ==
    \/ Recheck

SpecRecheck == InitRecheck /\ [][NextRecheck]_vars

----------------------------------------------------------------------------
(* What the next call would observe in the present state. *)

\* The result of loadRules() called now.
CurrentLoad ==
    loadRules(storedRules, storedMeta, DEFAULT_RULES, getThrows, setThrows,
              setMetaThrows, now)

\* The result of getMetadata() called now.
CurrentMeta == getMetadata(storedMeta, DEFAULT_RULES, getThrows, now)

\* The ids of the rules loadRules() returns now.
StoredIds == {CurrentLoad.val[i].id : i \in 1..Len(CurrentLoad.val)}

\* This step is a call of the store operation op.
Called(op) == ops' = ops + 1 /\ storage' = storage /\ last'.op = op

----------------------------------------------------------------------------
(* generateRulesFromSearch.  The call is suspended at its await while the  *)
(* AI answers; the store operations of the admin dashboard run meanwhile.  *)
(* The answer is an input: the call is rejected, response.text is empty,   *)
(* the text is no JSON, the JSON is an object that has no map, or it is an *)
(* array of objects, each the record of the fields it has.                  *)

\* An object of the array the AI returns.
GenRaw(title) ==
    [title |-> title, description |-> <<"d", "g">>, forbiddenWords |-> << <<"x">> >>,
     severity |-> "high"]

GeneratedAnswers ==
    { [kind |-> k, payload |-> << >>] :
         k \in {"rejected", "empty", "unparseable", "object", "array"} }
      \cup { [kind |-> "array", payload |-> a] :
                a \in { << [GenRaw(<<"N", "r">>) EXCEPT !.severity = "low"] >>,
                        << GenRaw(<<"N", "r">>), GenRaw(<<"n", "r">>) >>,
                        << GenRaw(<<"o", "v">>),
                           [category |-> "promo", title |-> <<"P", "r">>] >>,
                        << [description |-> <<"d", "g">>] >> } }

\* The object the map callback builds from rule, the element at index, with
\* the reading t of Date.now(); title and description are copied as they
\* are, and JSON.stringify leaves an undefined one out.
toTikTokRule(rule, index, t) ==
    LET given == DOMAIN rule \cap {"title", "description"}
        copied == [f \in given |-> rule[f]]
    IN  Spread(copied,
               [id |-> <<"ai-rule-", t, index>>,
                category |-> IF Has(rule, "category") THEN rule.category ELSE "other",
                forbiddenWords |-> IF Has(rule, "forbiddenWords")
                                     THEN rule.forbiddenWords ELSE << >>,
                forbiddenPairings |-> IF Has(rule, "forbiddenPairings")
                                        THEN rule.forbiddenPairings ELSE << >>,
                examples |-> IF Has(rule, "examples") THEN rule.examples ELSE << >>,
                severity |-> IF Has(rule, "severity") THEN rule.severity ELSE "medium",
                isActive |-> TRUE, createdAt |-> t, updatedAt |-> t])

\* existingRules.some(r => r.title.toLowerCase() === newRule.title.toLowerCase())
titleExists(existingRules, newRule) ==
    \E i \in 1..Len(existingRules) :
       toLowerCase(existingRules[i].title) = toLowerCase(newRule.title)

\* A merge that saves the new rules alone.
RECURSIVE mergeGenerated_DropsExisting(_, _, _)
mergeGenerated_DropsExisting(existingRules, mergedRules, newRules) ==
    IF newRules = << >>
      THEN SubSeq(mergedRules, Len(existingRules) + 1, Len(mergedRules))
      ELSE mergeGenerated_DropsExisting(
             existingRules,
             IF titleExists(existingRules, Head(newRules))
               THEN mergedRules ELSE Append(mergedRules, Head(newRules)),
             Tail(newRules))

\* The loop over newRules: a new rule is pushed to mergedRules unless a rule
\* of existingRules has its title.
RECURSIVE mergeGenerated(_, _, _)
mergeGenerated(existingRules, mergedRules, newRules) ==
    IF newRules = << >>
      THEN mergedRules
      ELSE mergeGenerated(
             existingRules,
             IF titleExists(existingRules, Head(newRules))
               THEN mergedRules ELSE Append(mergedRules, Head(newRules)),
             Tail(newRules))

\* generateRulesFromSearch(apiKey) from the moment the awaited call settles,
\* with the reading t of Date.now().  Every error is caught and thrown again
\* as Error('Failed to generate rules from AI').  newRule.title.toLowerCase()
\* throws for a rule without a title, as soon as some() calls its callback.
generateRulesFromSearch(sr, sm, D, answer, t) ==
    LET r == loadRules(sr, sm, D, getThrows, setThrows, setMetaThrows, t)
        existingRules == r.val
        newRules == [i \in 1..Len(answer.payload) |->
                        toTikTokRule(answer.payload[i], i - 1, t)]
        mergedRules == mergeGenerated(existingRules, existingRules, newRules)
        s == saveRules(r.sr, r.sm, mergedRules, setThrows, setMetaThrows, t)
    IN  IF answer.kind # "array"
          THEN [sr |-> sr, sm |-> sm, raised |-> "Error", out |-> << >>]
        ELSE IF /\ existingRules # << >>
                /\ \E i \in 1..Len(newRules) : ~Has(newRules[i], "title")
          THEN [sr |-> r.sr, sm |-> r.sm, raised |-> "Error", out |-> << >>]
        ELSE [sr |-> s.sr, sm |-> s.sm, raised |-> "none", out |-> mergedRules]

\* handleGenerateRules up to the await inside generateRulesFromSearch; the
\* button is disabled while isGenerating.
GenerateStart ==
    /\ ops < MaxOps
    /\ ~generation.active
    /\ generation' = [active |-> TRUE, atCall |-> CurrentLoad.val]
    /\ last' = Result("generateStart", "none", TRUE, << >>)
    /\ ops' = ops + 1
    /\ UNCHANGED <<storedRules, storedMeta, DEFAULT_RULES, now, storage, assignedIds,
                   deletedIds, exported, view>>

\* The awaited call settles and generateRulesFromSearch runs to its end.
GenerateFinish ==
    /\ ops < MaxOps
    /\ generation.active
    /\ \E answer \in GeneratedAnswers, t \in Reading(now) :
         LET g == generateRulesFromSearch(storedRules, storedMeta, DEFAULT_RULES,
                                          answer, t)
         IN  /\ storedRules' = g.sr
             /\ storedMeta' = g.sm
             /\ now' = t
             /\ last' = [Result("generate", g.raised, g.raised = "none", g.out)
                           EXCEPT !.response = answer]
    /\ generation' = [generation EXCEPT !.active = FALSE]
    /\ ops' = ops + 1
    /\ UNCHANGED <<DEFAULT_RULES, storage, assignedIds, deletedIds, exported, view>>

NextGenerate ==
    \/ GenerateStart
    \/ GenerateFinish
    \/ AddRule
    \/ UpdateRule
    \/ DeleteRule

SpecGenerate == Init /\ [][NextGenerate]_vars

----------------------------------------------------------------------------
(* The result view: ResultDisplay with the result and loading props that   *)
(* App passes to it.  The component stays mounted while result is null and *)
(* while loading shows the skeleton, so its state outlives both.  A call   *)
(* of rewriteScript and a call of recheckScriptViolation are suspended     *)
(* while the AI answers; the handlers of the buttons run meanwhile.        *)

MaxResults == 2

\* safetyData.riskScore: 0 offers the original script alone, 10 offers both
\* buttons (isSafe is riskScore < 30), 50 offers the rewrite alone.
RiskScores == {0, 10, 50}

\* What rewriteScript resolves to.
RewrittenScripts == { <<"B">> }

\* The effect on [result]: it runs after every change of the prop.
resetOnResult(v) ==
    [v EXCEPT !.fixedScript = NoView.fixedScript,
              !.usedOriginal = FALSE,
              !.recheckResult = NoView.recheckResult]

\* The safety card and its buttons are rendered.
CardShown == ~view.loading /\ view.result.mode = "SAFETY"

\* handleAnalyze of App up to the await of analyzeVideo.
HandleAnalyze ==
    /\ ~view.loading
    /\ view.result.n < MaxResults
    /\ view' = [view EXCEPT !.loading = TRUE]
    /\ UNCHANGED <<storedRules, storedMeta, DEFAULT_RULES, now, storage, ops,
                   assignedIds, deletedIds, exported, last, generation>>

\* analyzeVideo resolves: setResult, setStatus('completed'), and the effect.
AnalysisCompletes ==
    /\ view.loading
    /\ \E risk \in RiskScores :
         view' = resetOnResult(
                   [view EXCEPT !.loading = FALSE,
                                !.result = [n |-> view.result.n + 1, mode |-> "SAFETY",
                                            riskScore |-> risk,
                                            transcript_summary |-> <<"n">>]])
    /\ UNCHANGED <<storedRules, storedMeta, DEFAULT_RULES, now, storage, ops,
                   assignedIds, deletedIds, exported, last, generation>>

\* handleFixScript up to the await of rewriteScript.
HandleFixScript ==
    /\ CardShown
    /\ ~view.fixedScript.set
    /\ view.result.riskScore > 0
    /\ ~view.rewriting
    /\ view' = [view EXCEPT !.rewriting = TRUE, !.pendingRewrite = TRUE]
    /\ UNCHANGED <<storedRules, storedMeta, DEFAULT_RULES, now, storage, ops,
                   assignedIds, deletedIds, exported, last, generation>>

\* rewriteScript settles: the script is set, or the catch alerts; finally.
RewriteSettles ==
    /\ view.pendingRewrite
    /\ \/ \E newScript \in RewrittenScripts :
            view' = [view EXCEPT !.fixedScript = [set |-> TRUE, text |-> newScript],
                                 !.usedOriginal = FALSE,
                                 !.rewriting = FALSE, !.pendingRewrite = FALSE]
       \/ view' = [view EXCEPT !.rewriting = FALSE, !.pendingRewrite = FALSE]
    /\ UNCHANGED <<storedRules, storedMeta, DEFAULT_RULES, now, storage, ops,
                   assignedIds, deletedIds, exported, last, generation>>

HandleUseOriginal ==
    /\ CardShown
    /\ ~view.fixedScript.set
    /\ view.result.riskScore < 30
    /\ view' = [view EXCEPT !.fixedScript = [set |-> TRUE,
                                             text |-> view.result.transcript_summary],
                            !.usedOriginal = TRUE]
    /\ UNCHANGED <<storedRules, storedMeta, DEFAULT_RULES, now, storage, ops,
                   assignedIds, deletedIds, exported, last, generation>>

\* handleApplyScript: onUpdateResult makes result a transcript, and the
\* effect runs.
HandleApplyScript ==
    /\ CardShown
    /\ view.fixedScript.set
    /\ view.result.n < MaxResults
    /\ view' = resetOnResult(
                 [view EXCEPT !.result = [n |-> view.result.n + 1, mode |-> "TRANSCRIPT",
                                          riskScore |-> 0,
                                          transcript_summary |-> << >>]])
    /\ UNCHANGED <<storedRules, storedMeta, DEFAULT_RULES, now, storage, ops,
                   assignedIds, deletedIds, exported, last, generation>>

\* handleRecheckScript(fixedScript).  recheckScriptViolation runs its local
\* check at once.  When it does not reach its await the promise settles
\* before any other handler runs: the local result is set, or the catch
\* alerts.  Otherwise the call stays suspended.
HandleRecheckScript ==
    /\ CardShown
    /\ view.fixedScript.set
    /\ ~view.recheckingScript
    /\ LET scriptText == view.fixedScript.text
           r == recheckScriptViolation(storedRules, storedMeta, DEFAULT_RULES,
                                       scriptText, [kind |-> "rejected", payload |-> << >>],
                                       now)
           c == checkTextViolation(storedRules, storedMeta, DEFAULT_RULES, scriptText, now)
       IN  /\ storedRules' = r.sr
           /\ storedMeta' = r.sm
           /\ view' =
                IF r.invoked
                  THEN [view EXCEPT !.recheckingScript = TRUE,
                                    !.recheckResult = NoView.recheckResult,
                                    !.pendingRecheck =
                                       [active |-> TRUE, script |-> scriptText,
                                        forResult |-> view.result.n,
                                        localCheck |-> c.result]]
                ELSE IF r.result.raised # "none"
                  THEN [view EXCEPT !.recheckResult = NoView.recheckResult]
                ELSE [view EXCEPT !.recheckResult =
                                     [set |-> TRUE, script |-> scriptText,
                                      forResult |-> view.result.n,
                                      result |-> r.result]]
    /\ UNCHANGED <<DEFAULT_RULES, now, storage, ops, assignedIds, deletedIds, exported,
                   last, generation>>

\* The awaited call of the AI settles: recheckScriptViolation returns the
\* merged or the local result, setRecheckResult, finally.
RecheckSettles ==
    /\ view.pendingRecheck.active
    /\ \E response \in ExternalResponses :
         LET localCheck == view.pendingRecheck.localCheck
             result == catchExternal(localCheck, tryExternalCheck(localCheck, response))
         IN  view' = [view EXCEPT !.recheckResult =
                                     [set |-> TRUE,
                                      script |-> view.pendingRecheck.script,
                                      forResult |-> view.pendingRecheck.forResult,
                                      result |-> result],
                                  !.recheckingScript = FALSE,
                                  !.pendingRecheck = NoView.pendingRecheck]
    /\ UNCHANGED <<storedRules, storedMeta, DEFAULT_RULES, now, storage, ops,
                   assignedIds, deletedIds, exported, last, generation>>

NextView ==
    \/ HandleAnalyze
    \/ AnalysisCompletes
    \/ HandleFixScript
    \/ RewriteSettles
    \/ HandleUseOriginal
    \/ HandleApplyScript
    \/ HandleRecheckScript
    \/ RecheckSettles

SpecView == InitRecheck /\ [][NextView]_vars

----------------------------------------------------------------------------
(* Properties *)

\* C1: after any sequence of store operations, from never-initialized storage
\* on, resetToDefault() followed by getMetadata() reports totalRules = 6 and
\* activeRules = 6, and load() then returns exactly the six built-in rules.
C1_ResetRestoresBuiltIn ==
    last.op = "reset" =>
        /\ CurrentMeta.totalRules = 6
        /\ CurrentMeta.activeRules = 6
        /\ CurrentLoad.val = BuiltInRules

\* C2: the id addRule assigns differs from the id of every rule in the store
\* at the call and from every id an earlier addRule assigned, also when the
\* clock has not advanced between the calls.
C2_AddAssignsFreshId ==
    [][Called("add") => last'.id \notin assignedIds \cup StoredIds]_vars

\* C3: updateRule(id, updates) leaves the id and the createdAt of the rule it
\* updates as they were, whatever fields updates carries.
C3_UpdateKeepsIdentity ==
    [][Called("update") /\ last'.ok =>
         LET before == CurrentLoad.val[findIndex(CurrentLoad.val, last'.id)]
         IN  /\ last'.out[1].id = before.id
             /\ last'.out[1].createdAt = before.createdAt]_vars

C5_LoadFallsBackToBuiltIn ==
    [][Called("load") =>
         /\ last'.raised = "none"
         /\ getThrows => last'.out = BuiltInRules
         /\ ~getThrows /\ storedRules.kind = "null" =>
               /\ last'.out = BuiltInRules
               /\ ~setThrows => storedRules' = JSONstringifyRules(BuiltInRules)
         /\ ~getThrows /\ storedRules.kind = "array" =>
               last'.out = storedRules.rules]_vars

\* This step is updateRule or deleteRule with an id no stored rule has.
CalledWithAbsentId ==
    /\ Called("update") \/ Called("delete")
    /\ last'.id \notin StoredIds

C7_ImportReplacesOrRefuses ==
    [][Called("import") =>
         /\ last'.ok <=> last'.blobKind = "rulesArray"
         /\ last'.ok => CurrentLoad'.val = last'.out
         /\ ~last'.ok => storedRules' = storedRules /\ storedMeta' = storedMeta]_vars

\* An empty rules array was imported over a store that held rules, and
\* loadRules() returns no rule.
C7_Witness ==
    /\ last.op = "import"
    /\ last.ok
    /\ ~last.emptyBefore
    /\ last.out = << >>
    /\ CurrentLoad.val = << >>

\* C8: in every state S, the text exportRules() returns in S, imported into
\* a store that holds no rules, makes importRules return true and
\* loadRules() return the sequence loadRules() returned in S.
C8_ExportImportRoundTrip ==
    LET e == exportRules(storedRules, storedMeta, DEFAULT_RULES, now)
    IN  \A sr0 \in {NoItem, JSONstringifyRules(<< >>)} :
          LET i == importRules(sr0, storedMeta, e.blob, now)
              l == loadRules(i.sr, i.sm, DEFAULT_RULES, getThrows, setThrows,
                             setMetaThrows, now)
          IN  i.ok /\ l.val = e.loaded

\* The exported text, holding rules, was imported into a store
\* emptied since and loadRules() returns the exported rules.
C8_Witness ==
    /\ last.op = "import"
    /\ last.id = <<"exported", 0>>
    /\ last.emptyBefore
    /\ last.ok
    /\ exported.blob.rules # << >>
    /\ CurrentLoad.val = exported.blob.rules

\* The queries that are a case-insensitive substring of a title.
TitleQueries(title) ==
    LET parts == {SubSeq(title, i, j) : i \in 1..Len(title), j \in 1..Len(title)}
    IN  parts \cup {toLowerCase(q) : q \in parts}

\* What searchRules(q) called now returns.
SearchNow(q) == searchRules(storedRules, storedMeta, DEFAULT_RULES, q, now).out

\* C9: after addRule, searchRules(q) returns the added rule for every q
\* that is a case-insensitive substring of its title; after deleteRule has
\* removed a rule, no search returns it until a rule is added or imported.
C9_SearchFollowsAddAndDelete ==
    /\ last.op = "add" /\ last.ok =>
          \A q \in TitleQueries(last.out[1].title) :
            \E i \in 1..Len(SearchNow(q)) : SearchNow(q)[i] = last.out[1]
    /\ \A q \in Queries \cup {<< >>} :
          \A i \in 1..Len(SearchNow(q)) : SearchNow(q)[i].id \notin deletedIds

\* C10: while localStorage throws on reads, on writes or on both, no store
\* operation raises an error to its caller.
C10_NoErrorReachesCaller == last.raised = "none"

\* addRule returned although its write failed: nothing is persisted.
C10_Witness ==
    /\ last.op = "add"
    /\ setThrows
    /\ storedRules.kind = "null"
    /\ last.raised = "none"

\* The sequence without its i-th element.
RemoveAt(seq, i) == SubSeq(seq, 1, i - 1) \o SubSeq(seq, i + 1, Len(seq))

\* What checkTextViolation(text) returns on a store holding rules.
CheckOn(rules, text) ==
    checkTextViolation(JSONstringifyRules(rules), storedMeta, DEFAULT_RULES, text,
                       now).result

\* C11: a stored rule with isActive = false contributes no finding: for
\* every text, checkTextViolation returns what it returns on the store
\* without that rule, whatever the rule's words and pairings are.
C11_InactiveRuleContributesNothing ==
    last.op = "checkText" =>
        \A i \in 1..Len(CurrentLoad.val) :
           ~CurrentLoad.val[i].isActive =>
               CheckOn(RemoveAt(CurrentLoad.val, i), last.query) = last.out[1]

\* The text checked holds a forbidden word and a pairing of an inactive
\* stored rule, and the check found nothing.
C11_Witness ==
    /\ last.op = "checkText"
    /\ last.ok
    /\ ~last.out[1].isViolating
    /\ \E i \in 1..Len(CurrentLoad.val) :
          /\ ~CurrentLoad.val[i].isActive
          /\ Len(findingsOf(CurrentLoad.val[i], last.query)) = 2

\* The pairing with its two words exchanged.
Swapped(pairing) == [word1 |-> pairing.word2, word2 |-> pairing.word1]

\* The result holds a pairing finding.
Flagged(result) ==
    \E i \in 1..Len(result.violatedRules) :
       result.violatedRules[i].violation.kind = "pairing"

\* text is x, a, m, b, y in this order, with no line terminator in m.
OccursBeforeOnLine(text, a, b) ==
    \E i \in 0..Len(text), j \in 0..Len(text) :
       /\ i + Len(a) <= j
       /\ j + Len(b) <= Len(text)
       /\ toLowerCase(SubSeq(text, i + 1, i + Len(a))) = toLowerCase(a)
       /\ toLowerCase(SubSeq(text, j + 1, j + Len(b))) = toLowerCase(b)
       /\ \A k \in (i + Len(a) + 1)..j : text[k] # "\n"

\* C12: pairing matching is symmetric in the two words: on every text the
\* stored rule with the pairing (w1, w2) yields a pairing finding exactly
\* when the same rule with (w2, w1) does, and a text in which w2 comes
\* before w1 is flagged as one in which w1 comes before w2 is.
C12_PairingSymmetric ==
    last.op = "checkText" =>
        LET rule == CurrentLoad.val[1]
            pairing == rule.forbiddenPairings[1]
            other == CheckOn(<<[rule EXCEPT !.forbiddenPairings = <<Swapped(pairing)>>]>>,
                             last.query)
        IN  /\ last.out[1].raised = other.raised
            /\ Flagged(last.out[1]) <=> Flagged(other)
            /\ last.ok /\ OccursBeforeOnLine(last.query, pairing.word1, pairing.word2)
                  => Flagged(last.out[1])
            /\ last.ok /\ OccursBeforeOnLine(last.query, pairing.word2, pairing.word1)
                  => Flagged(last.out[1])

\* The stored pairing (b, n) flagged a text in which n comes first and B
\* last.
C12_Witness ==
    /\ last.op = "checkText"
    /\ last.ok
    /\ last.query = <<"n", "n", "B">>
    /\ CurrentLoad.val[1].forbiddenPairings = << [word1 |-> <<"b">>, word2 |-> <<"n">>] >>
    /\ Flagged(last.out[1])

\* C13: overallRisk is the sum over the findings of the weight of their
\* severity (low 10, medium 25, high 40, critical 60, any other value 20),
\* capped at 100, and 0 when there is no finding.
C13_RiskIsCappedWeightSum ==
    last.op = "checkText" /\ last.ok =>
        LET sum == totalScore(last.out[1].violatedRules)
        IN  last.out[1].overallRisk = Num(IF sum < 100 THEN sum ELSE 100)

\* The words and pairings added to an active rule in the checks of C14.
ExtraWords == { <<"n">>, <<"B">> }

ExtraPairings ==
    { [word1 |-> <<"n">>, word2 |-> <<"B">>], [word1 |-> <<"(">>, word2 |-> <<"n">>] }

\* C14: for a fixed text, adding an active rule to the store, or a word or
\* a pairing to an active rule, never lowers overallRisk, and overallRisk
\* is within 0..100.
C14_RiskMonotoneAndBounded ==
    last.op = "checkText" /\ last.ok =>
        LET rules == CurrentLoad.val
            risk == last.out[1].overallRisk
            NotLower(result) ==
                /\ result.raised = "none"
                /\ ~result.overallRisk.nan
                /\ result.overallRisk.val \in 0..100
                /\ result.overallRisk.val >= risk.val
        IN  /\ ~risk.nan
            /\ risk.val \in 0..100
            /\ \A rule \in {r \in MatchRuleTemplates : r.isActive} :
                  NotLower(CheckOn(Append(rules, rule), last.query))
            /\ \A i \in 1..Len(rules) :
                  rules[i].isActive =>
                    /\ \A w \in ExtraWords :
                          NotLower(CheckOn([rules EXCEPT ![i].forbiddenWords = Append(@, w)],
                                           last.query))
                    /\ \A p \in ExtraPairings :
                          NotLower(CheckOn([rules EXCEPT ![i].forbiddenPairings = Append(@, p)],
                                           last.query))

\* C15: checkTextViolation leaves the rules item and the metadata item as
\* they were, in every storage state, the never-initialized one included.
C15_CheckTextPersistsNothing ==
    [][Called("checkText") =>
         storedRules' = storedRules /\ storedMeta' = storedMeta]_vars

\* What the local check of the text rechecked returns.
LocalCheck == CheckOn(CurrentLoad.val, last.query)

\* The last call was a recheck of a text that is locally clean.
RecheckedClean ==
    /\ last.op = "recheck"
    /\ LocalCheck.raised = "none"
    /\ ~LocalCheck.isViolating

\* C16: when the local check reports a violation, recheckScriptViolation
\* returns exactly the local result and the external collaborator is not
\* invoked during the call.
C16_LocalViolationShortCircuits ==
    last.op = "recheck" /\ LocalCheck.raised = "none" /\ LocalCheck.isViolating =>
        /\ last.raised = "none"
        /\ last.out[1] = LocalCheck
        /\ ~last.invoked

\* A text with a local finding was rechecked while the collaborator held a
\* complete violating answer ready; the local result came back and the
\* collaborator was not asked.
C16_Witness ==
    /\ last.op = "recheck"
    /\ LocalCheck.isViolating
    /\ last.response.kind = "json"
    /\ last.response.payload \in CompletePayloads
    /\ last.response.payload.isViolating
    /\ last.out[1] = LocalCheck
    /\ ~last.invoked

\* C17: when the text is locally clean and the external collaborator fails
\* (the call is rejected, the response is empty, the response is no JSON),
\* recheckScriptViolation raises nothing and returns the local clean result.
C17_ExternalFailureFallsBack ==
    RecheckedClean /\ last.response.kind \in {"rejected", "empty", "unparseable"} =>
        /\ last.raised = "none"
        /\ last.out[1] = LocalCheck

\* The collaborator was asked about a locally clean text and the call was
\* rejected; the clean local result came back.
C17_Witness ==
    /\ RecheckedClean
    /\ last.invoked
    /\ last.response.kind = "rejected"
    /\ last.raised = "none"
    /\ ~last.out[1].isViolating
    /\ last.out[1].explanation = Explanation("local", 0)

\* C18: when the text is locally clean and the collaborator answers with a
\* complete result, recheckScriptViolation returns isViolating = local or
\* external, the local findings followed by the external ones, the greater
\* of the two risks, and the external explanation unless it is empty, the
\* local one then.
C18_MergeOfCompleteAnswer ==
    RecheckedClean /\ last.response.kind = "json"
      /\ last.response.payload \in CompletePayloads =>
        LET ai == last.response.payload
            merged == last.out[1]
        IN  /\ last.raised = "none"
            /\ merged.isViolating = (LocalCheck.isViolating \/ ai.isViolating)
            /\ merged.violatedRules = LocalCheck.violatedRules \o ai.violatedRules
            /\ ~merged.overallRisk.nan
            /\ merged.overallRisk.val >= LocalCheck.overallRisk.val
            /\ merged.overallRisk.val >= ai.overallRisk.val
            /\ merged.overallRisk \in {LocalCheck.overallRisk, ai.overallRisk}
            /\ merged.explanation = IF ai.explanation.src = "empty"
                                       THEN LocalCheck.explanation
                                       ELSE ai.explanation

\* A complete violating answer with an empty explanation was merged: the
\* result is violating, holds the two external findings and the risk 40,
\* and keeps the local explanation.
C18_Witness ==
    /\ RecheckedClean
    /\ last.invoked
    /\ last.response.payload \in CompletePayloads
    /\ last.out[1].isViolating
    /\ Len(last.out[1].violatedRules) = 2
    /\ last.out[1].overallRisk = Num(40)
    /\ last.out[1].explanation = Explanation("local", 0)

\* C19: when the answer parses and reports isViolating = true but leaves
\* out violatedRules, overallRisk or explanation, recheckScriptViolation
\* still returns a merged result with a number as risk and with
\* isViolating true.
C19_PartialAnswerKeepsVerdict ==
    RecheckedClean /\ last.response.kind = "json"
      /\ last.response.payload \in PartialPayloads =>
        /\ last.raised = "none"
        /\ last.out[1].isViolating
        /\ ~last.out[1].overallRisk.nan

\* The positions of the active rules in the store.
ActivePositions == {i \in 1..Len(CurrentLoad.val) : CurrentLoad.val[i].isActive}

\* The place of a category in the fixed order; 0 for any other value.
CategoryRank(category) ==
    IF \E k \in 1..Len(CategoryOrder) : CategoryOrder[k] = category
      THEN CHOOSE k \in 1..Len(CategoryOrder) : CategoryOrder[k] = category
      ELSE 0

\* C20: buildRulesPrompt lists exactly the active stored rules, each once,
\* as entries numbered 1..n without a restart, ordered by category in the
\* fixed order and by store order within a category.
C20_BriefListsActiveRulesInOrder ==
    last.op = "buildBrief" =>
        /\ last.raised = "none"
        /\ Len(last.out) = Cardinality(ActivePositions)
        /\ \A k \in 1..Len(last.out) : last.out[k].index = k
        /\ \E pos \in [1..Len(last.out) -> ActivePositions] :
              /\ \A k \in 1..Len(last.out) :
                    last.out[k] = BriefEntry(CurrentLoad.val[pos[k]], k)
              /\ \A k \in 1..Len(last.out), l \in 1..Len(last.out) :
                    k < l =>
                      LET ck == CategoryRank(CurrentLoad.val[pos[k]].category)
                          cl == CategoryRank(CurrentLoad.val[pos[l]].category)
                      IN  ck < cl \/ (ck = cl /\ pos[k] < pos[l])

\* text is x, a, m, b, y in this order, whatever m holds.
OccursBefore(text, a, b) ==
    \E i \in 0..Len(text), j \in 0..Len(text) :
       /\ i + Len(a) <= j
       /\ j + Len(b) <= Len(text)
       /\ toLowerCase(SubSeq(text, i + 1, i + Len(a))) = toLowerCase(a)
       /\ toLowerCase(SubSeq(text, j + 1, j + Len(b))) = toLowerCase(b)

\* C21: for every text, a text of several lines included, and the pairing
\* (w1, w2) of the active stored rule, checkTextViolation emits a pairing
\* finding exactly when the text holds w1 and later w2, or w2 and later w1,
\* letter case ignored, at any distance from each other.  Stated of the
\* calls that return.
C21_PairingFoundAtAnyDistance ==
    last.op = "checkText" /\ last.ok =>
        LET pairing == CurrentLoad.val[1].forbiddenPairings[1]
        IN  Flagged(last.out[1]) <=>
              \/ OccursBefore(last.query, pairing.word1, pairing.word2)
              \/ OccursBefore(last.query, pairing.word2, pairing.word1)

\* C22: checkTextViolation returns a result and raises no error, for every
\* text and every stored rule set, the rules whose pairing words hold a
\* character with a meaning in a pattern included.
C22_CheckTextRaisesNothing ==
    last.op = "checkText" => last.raised = "none" /\ last.out[1].raised = "none"

\* The findings the claim C23 lists for the rules from position i on: for
\* each active rule in store order, one per forbidden word the text holds,
\* then one per pairing that matches.
RECURSIVE ExpectedFindings(_, _, _)
ExpectedFindings(rules, text, i) ==
    IF i > Len(rules)
      THEN << >>
      ELSE LET rule == rules[i]
               words == SelectSeq(rule.forbiddenWords,
                                  LAMBDA w : includes(toLowerCase(text), toLowerCase(w)))
               pairings == SelectSeq(rule.forbiddenPairings,
                                     LAMBDA p : ~RegExpThrows(p) /\ regexTest(text, p))
               own == [k \in 1..(Len(words) + Len(pairings)) |->
                          IF k <= Len(words)
                            THEN WordFinding(rule, words[k])
                            ELSE PairingFinding(rule, pairings[k - Len(words)])]
           IN  (IF rule.isActive THEN own ELSE << >>)
                 \o ExpectedFindings(rules, text, i + 1)

\* C23: checkTextViolation emits one finding for each forbidden word of an
\* active rule that the text holds and one for each matching pairing of an
\* active rule, nothing being deduplicated, in store order of the rules and
\* with the word findings of a rule before its pairing findings; isViolating
\* is true exactly when that list is not empty.
C23_OneFindingPerMatchInOrder ==
    last.op = "checkText" =>
        LET expected == ExpectedFindings(CurrentLoad.val, last.query, 1)
        IN  /\ last.out[1].violatedRules = expected
            /\ last.out[1].isViolating <=> expected # << >>

\* C24: for an id a stored rule has, updateRule(id, updates) returns and
\* persists the old rule with the fields of updates laid over it and with
\* updatedAt the reading of the clock, also when updates carries an
\* updatedAt of its own; every other rule and the order of the store stay.
C24_UpdateOverlaysAndStamps ==
    [][Called("update") /\ last'.ok =>
         LET before == CurrentLoad.val
             after == CurrentLoad'.val
             index == findIndex(before, last'.id)
             updated == last'.out[1]
         IN  /\ DOMAIN updated = DOMAIN before[index] \cup DOMAIN last'.updates
             /\ \A f \in DOMAIN updated :
                   updated[f] = IF f = "updatedAt" THEN now'
                                ELSE IF f \in DOMAIN last'.updates THEN last'.updates[f]
                                ELSE before[index][f]
             /\ Len(after) = Len(before)
             /\ after[index] = updated
             /\ \A j \in 1..Len(before) : j # index => after[j] = before[j]]_vars

\* updateRule was called at time 1 or later, on a store of more than one
\* rule, with updates that carry the updatedAt 0 and a title; the stored
\* rule has the title and the time of the call.
C24_Witness ==
    /\ last.op = "update"
    /\ last.ok
    /\ "updatedAt" \in DOMAIN last.updates
    /\ last.updates.updatedAt = 0
    /\ now > 0
    /\ Len(CurrentLoad.val) > 1
    /\ \E i \in 1..Len(CurrentLoad.val) :
          /\ CurrentLoad.val[i] = last.out[1]
          /\ CurrentLoad.val[i].updatedAt = now
          /\ CurrentLoad.val[i].title = last.updates.title

\* C25: addRule(rule) returns a rule whose createdAt equals its updatedAt,
\* and loadRules() right after it returns the rules stored before, in their
\* order, followed by the rule returned.
C25_AddStampsOnceAndAppends ==
    [][Called("add") =>
         /\ last'.out[1].createdAt = last'.out[1].updatedAt
         /\ CurrentLoad'.val = Append(CurrentLoad.val, last'.out[1])]_vars

\* C26: every result recheckScriptViolation returns, whatever the external
\* collaborator answered, has an integer within 0..100 as overallRisk and
\* has isViolating true exactly when violatedRules is not empty.
C26_RecheckResultWellFormed ==
    last.op = "recheck" /\ last.ok =>
        /\ ~last.out[1].overallRisk.nan
        /\ last.out[1].overallRisk.val \in 0..100
        /\ last.out[1].isViolating <=> last.out[1].violatedRules # << >>

\* C28: buildRulesPrompt returns a brief that holds every active stored
\* rule, for every stored rule set, the rules whose category is none of the
\* seven enumerated values included; getTikTokRules never replaces the
\* compiled brief by its static text because of a stored rule.
C28_BriefCompiledForEveryStore ==
    last.op = "buildBrief" =>
        /\ last.raised = "none"
        /\ \A i \in ActivePositions :
              \E k \in 1..Len(last.out) :
                 last.out[k].title = CurrentLoad.val[i].title
        /\ getTikTokRules(storedRules, storedMeta, DEFAULT_RULES, now).kind = "compiled"

\* No two of the rules have the same title, letter case ignored.
NoTitleTwice(rules) ==
    \A i \in 1..Len(rules), j \in 1..Len(rules) :
       i # j => toLowerCase(rules[i].title) # toLowerCase(rules[j].title)

\* C27: a generateRulesFromSearch that succeeds on a store in which no two
\* rules have the same title, letter case ignored, leaves every rule stored
\* before as it was and in its place, and leaves a store in which no two
\* rules have the same title, whatever the AI returned.
C27_GenerateKeepsTitlesUnique ==
    [][Called("generate") /\ last'.ok /\ NoTitleTwice(CurrentLoad.val) =>
         /\ Len(CurrentLoad'.val) >= Len(CurrentLoad.val)
         /\ SubSeq(CurrentLoad'.val, 1, Len(CurrentLoad.val)) = CurrentLoad.val
         /\ NoTitleTwice(CurrentLoad'.val)]_vars

\* This step is the end of a suspended generateRulesFromSearch.
GenerateSettles == Called("generate") /\ generation.active /\ ~generation'.active

\* C29: the rules generateRulesFromSearch saves are the rules the store
\* holds when the answer arrives, each as it is and in its place, followed
\* by new ones, so that no add, update or delete made during the wait is
\* lost; when the AI call fails or its answer does not parse, the two items
\* stay as they are, and when the answer cannot be converted the stored
\* rules stay as they are.
C29_GenerateMergesIntoPresentStore ==
    [][GenerateSettles =>
         /\ last'.ok =>
               /\ last'.out = CurrentLoad'.val
               /\ Len(CurrentLoad'.val) >= Len(CurrentLoad.val)
               /\ SubSeq(CurrentLoad'.val, 1, Len(CurrentLoad.val)) = CurrentLoad.val
               /\ \A i \in (Len(CurrentLoad.val) + 1)..Len(CurrentLoad'.val) :
                     CurrentLoad'.val[i].id[1] = "ai-rule-"
         /\ ~last'.ok => CurrentLoad'.val = CurrentLoad.val
         /\ last'.response.kind # "array" =>
               /\ ~last'.ok
               /\ storedRules' = storedRules
               /\ storedMeta' = storedMeta]_vars

\* A generation that was suspended while a rule was added, another that was
\* suspended while a rule was updated or deleted, has succeeded and has
\* appended a rule: the store holds the rules as the operation left them.
C29_Witness ==
    /\ last.op = "generate"
    /\ last.ok
    /\ CurrentLoad.val # generation.atCall
    /\ Len(CurrentLoad.val) > Len(generation.atCall)
    /\ \E i \in 1..Len(CurrentLoad.val) :
          /\ CurrentLoad.val[i].id[1] = "rule-"
          /\ \A j \in 1..Len(generation.atCall) :
                generation.atCall[j] # CurrentLoad.val[i]
    /\ CurrentLoad.val[Len(CurrentLoad.val)].id[1] = "ai-rule-"

\* The recheck block of the script card is rendered.
RecheckDisplayed == CardShown /\ view.fixedScript.set /\ view.recheckResult.set

\* C30: whenever the result view displays a recheck result, it is the
\* outcome of a recheck of the script held as fixedScript, made for the
\* analysis result held as result: a recheck that settles after the script
\* was replaced or after result changed is never displayed.
C30_DisplayedRecheckIsCurrent ==
    RecheckDisplayed =>
        /\ view.recheckResult.script = view.fixedScript.text
        /\ view.recheckResult.forResult = view.result.n

====
